---- MODULE Spec2Model ----
(***************************************************************************)
(* Wio Terminal PC monitor firmware (wio-terminal/src/main.cpp): the line  *)
(* assembler shared by the serial and BLE transports, parseLine, the       *)
(* delta renderer with its draw caches, and the LCD sleep/wake state       *)
(* machine, as a state machine over the steps of loop().                   *)
(*                                                                         *)
(* Text is a sequence of one-character strings.  A float is modelled as a  *)
(* fixed-point integer in tenths (55.4 is 554); the records the model      *)
(* feeds carry at most one fractional digit, for which the firmware's      *)
(* float arithmetic (bar width, tenths, rounding) is exact.                *)
(***************************************************************************)
EXTENDS Integers, Sequences, FiniteSets, TLC

\* ------------------------------------------------------------ constants

SCREEN_W == 320
PADDING == 8
LABEL_W == 70
LINE_CAP == 128
LCD_SLEEP_TIMEOUT_MS == 60000
FRESH_MS == 2500
STATUS_PERIOD_MS == 1000
WAKE_DELAY_MS == 5
\* unsigned long is 32 bits wide; a time is kept as two 16-bit halves, each below HALF
HALF == 65536
CACHE_UNSET == -1000
\* the value -1 ("N/A") of a field, in tenths
UNAVAILABLE == -10
WIDTH_UNSET == -1
\* setup() waits 200 ms for the BLE stack and 10 ms before flushing the serial input
SETUP_DELAY_MS == 200 + 10

\* ------------------------------------------------------------ bounds of the model

\* the number of items in a script
ScriptLen == 2
\* the size of the first burst of a serial record that arrives in two bursts
FirstBurst == 3
\* clock advances in one run
MaxTicks == 2

\* ------------------------------------------------------------ text helpers

Digits == {"0", "1", "2", "3", "4", "5", "6", "7", "8", "9"}

\* isspace() of the C locale
Spaces == {" ", "\t", "\n", "\r"}
IsSpace(c) == c \in Spaces

DigitVal(c) ==
  CASE c = "0" -> 0 [] c = "1" -> 1 [] c = "2" -> 2 [] c = "3" -> 3
    [] c = "4" -> 4 [] c = "5" -> 5 [] c = "6" -> 6 [] c = "7" -> 7
    [] c = "8" -> 8 [] c = "9" -> 9

\* the one element of a singleton set; {F(v) : v \in {e}} computes e once and F of its value
Only(S) == CHOOSE x \in S : TRUE

\* the number of characters at the head (the tail) of s that are in the set cs
Leading(s, cs) ==
  CHOOSE k \in 0..Len(s) :
    /\ \A i \in 1..k : s[i] \in cs
    /\ k = Len(s) \/ s[k + 1] \notin cs
Trailing(s, cs) ==
  CHOOSE k \in 0..Len(s) :
    /\ \A i \in (Len(s) - k + 1)..Len(s) : s[i] \in cs
    /\ k = Len(s) \/ s[Len(s) - k] \notin cs

\* String::trim(): strips leading and trailing whitespace
DropLeadingSpace(s) == SubSeq(s, Leading(s, Spaces) + 1, Len(s))

DropTrailingSpace(s) == SubSeq(s, 1, Len(s) - Trailing(s, Spaces))

Trim(s) == Only({DropTrailingSpace(u) : u \in {DropLeadingSpace(t) : t \in {s}}})

\* String::indexOf(ch, fromIndex), 0-based, -1 when absent or fromIndex >= length
IndexOf(s, ch, from) ==
  IF \E i \in (from + 1)..Len(s) : s[i] = ch
    THEN (CHOOSE i \in (from + 1)..Len(s) :
             s[i] = ch /\ \A j \in (from + 1)..(i - 1) : s[j] # ch) - 1
    ELSE -1

\* String::substring(left, right), 0-based half-open, with the library's swap and clipping
Substring(s, left, right) ==
  LET l == IF left > right THEN right ELSE left
      r0 == IF left > right THEN left ELSE right
      r == IF r0 > Len(s) THEN Len(s) ELSE r0
  IN  IF l >= Len(s) THEN <<>> ELSE SubSeq(s, l + 1, r)

\* String::substring(left): to the end of the string
SubstringFrom(s, left) == Substring(s, left, Len(s))

\* the value of the longest run of decimal digits at the head of s, and its length
RECURSIVE DigitRun(_, _, _)
DigitRun(s, acc, n) ==
  IF s # <<>> /\ Head(s) \in Digits
    THEN DigitRun(Tail(s), acc * 10 + DigitVal(Head(s)), n + 1)
    ELSE <<acc, n, s>>

\* a variant of Atof that yields -1 when no number starts the text; C20 tells it from
\* Atof
AtofUnavailable(t) ==
  LET neg == t # <<>> /\ Head(t) = "-"
      u == IF t # <<>> /\ Head(t) \in {"-", "+"} THEN Tail(t) ELSE t
      zeros == Leading(u, {"0"})
      ip == DigitRun(SubSeq(u, zeros + 1, Len(u)), 0, zeros)
      rest == ip[3]
      hasFrac == rest # <<>> /\ Head(rest) = "."
      fp == IF hasFrac THEN DigitRun(Tail(rest), 0, 0) ELSE <<0, 0, rest>>
      firstFrac == IF fp[2] > 0 THEN DigitVal(Tail(rest)[1]) ELSE 0
      mag == IF ip[2] + fp[2] = 0 THEN 0 ELSE ip[1] * 10 + firstFrac
  IN  IF ip[2] + fp[2] = 0 THEN UNAVAILABLE ELSE IF neg THEN 0 - mag ELSE mag

\* atof on a text t without leading whitespace: optional sign, digits, optional
\* fraction; 0 when no number starts the text.  Result in tenths.
Atof(t) ==
  LET neg == t # <<>> /\ Head(t) = "-"
      u == IF t # <<>> /\ Head(t) \in {"-", "+"} THEN Tail(t) ELSE t
      zeros == Leading(u, {"0"})
      ip == DigitRun(SubSeq(u, zeros + 1, Len(u)), 0, zeros)
      rest == ip[3]
      hasFrac == rest # <<>> /\ Head(rest) = "."
      fp == IF hasFrac THEN DigitRun(Tail(rest), 0, 0) ELSE <<0, 0, rest>>
      firstFrac == IF fp[2] > 0 THEN DigitVal(Tail(rest)[1]) ELSE 0
      mag == IF ip[2] + fp[2] = 0 THEN 0 ELSE ip[1] * 10 + firstFrac
  IN  IF neg THEN 0 - mag ELSE mag

\* String::toFloat(): atof of the text, which skips leading whitespace
ToFloat(s) == Only({Atof(u) : u \in {DropLeadingSpace(t) : t \in {s}}})

\* ------------------------------------------------------------ parseLine

Metrics(cpu, tempC, ram, gpu, gpuTempC) ==
  [cpu |-> cpu, tempC |-> tempC, ram |-> ram, gpu |-> gpu, gpuTempC |-> gpuTempC]

\* struct Metrics default member initialisers
DefaultMetrics == Metrics(0, UNAVAILABLE, 0, UNAVAILABLE, 0)

\* a variant of SplitFields that asks for three commas only, so that a four-field line
\* is accepted; C5 tells it from SplitFields
SplitFieldsThreeCommas(l) ==
  LET idx1 == IndexOf(l, ",", 0)
      idx2 == IndexOf(l, ",", idx1 + 1)
      idx3 == IndexOf(l, ",", idx2 + 1)
  IN  IF idx1 < 0 \/ idx2 < 0 \/ idx3 < 0
        THEN [ok |-> FALSE, m |-> DefaultMetrics]
        ELSE [ok |-> TRUE,
              m |-> Metrics(ToFloat(Substring(l, 0, idx1)),
                            ToFloat(Substring(l, idx1 + 1, idx2)),
                            ToFloat(Substring(l, idx2 + 1, idx3)),
                            ToFloat(SubstringFrom(l, idx3 + 1)),
                            UNAVAILABLE)]

\* a variant of SplitFields that stores the third field as the GPU load and the fourth
\* as the RAM load; C21 tells it from SplitFields
SplitFieldsSwapped(l) ==
  LET idx1 == IndexOf(l, ",", 0)
      idx2 == IndexOf(l, ",", idx1 + 1)
      idx3 == IndexOf(l, ",", idx2 + 1)
      idx4 == IndexOf(l, ",", idx3 + 1)
  IN  IF idx1 < 0 \/ idx2 < 0 \/ idx3 < 0 \/ idx4 < 0
        THEN [ok |-> FALSE, m |-> DefaultMetrics]
        ELSE [ok |-> TRUE,
              m |-> Metrics(ToFloat(Substring(l, 0, idx1)),
                            ToFloat(Substring(l, idx1 + 1, idx2)),
                            ToFloat(Substring(l, idx3 + 1, idx4)),
                            ToFloat(Substring(l, idx2 + 1, idx3)),
                            ToFloat(SubstringFrom(l, idx4 + 1)))]

\* the body of parseLine on the text l
SplitFields(l) ==
  LET idx1 == IndexOf(l, ",", 0)
      idx2 == IndexOf(l, ",", idx1 + 1)
      idx3 == IndexOf(l, ",", idx2 + 1)
      idx4 == IndexOf(l, ",", idx3 + 1)
  IN  IF idx1 < 0 \/ idx2 < 0 \/ idx3 < 0 \/ idx4 < 0
        THEN [ok |-> FALSE, m |-> DefaultMetrics]
        ELSE [ok |-> TRUE,
              m |-> Metrics(ToFloat(Substring(l, 0, idx1)),
                            ToFloat(Substring(l, idx1 + 1, idx2)),
                            ToFloat(Substring(l, idx2 + 1, idx3)),
                            ToFloat(Substring(l, idx3 + 1, idx4)),
                            ToFloat(SubstringFrom(l, idx4 + 1)))]

\* parseLine: [ok |-> the return value, m |-> the Metrics written to out]
parseLine(line) == Only({SplitFields(l) : l \in {line}})

\* ------------------------------------------------------------ millis() arithmetic

Time(ms) == [hi |-> (ms \div HALF) % HALF, lo |-> ms % HALF]

\* t + d modulo 2^32, for a delay d below 2^30
TimeAdd(t, d) ==
  LET s == t.lo + d
  IN  [hi |-> (t.hi + s \div HALF) % HALF, lo |-> s % HALF]

\* a variant of Elapsed that subtracts without wrapping: 0 when a is below b; C28 tells
\* it from Elapsed
ElapsedNoWrap(a, b) ==
  IF a.hi < b.hi \/ (a.hi = b.hi /\ a.lo < b.lo) THEN 0
  ELSE LET dl == a.lo - b.lo
           dh == a.hi - b.hi - (IF dl < 0 THEN 1 ELSE 0)
       IN  IF dh >= 16384 THEN 16384 * HALF ELSE dh * HALF + (dl % HALF)

\* the unsigned difference (a - b) modulo 2^32; differences of 2^30 and more are
\* reported as 2^30, which every threshold of the firmware is below
Elapsed(a, b) ==
  LET dl == a.lo - b.lo
      dh == (a.hi - b.hi - (IF dl < 0 THEN 1 ELSE 0)) % HALF
  IN  IF dh >= 16384 THEN 16384 * HALF ELSE dh * HALF + (dl % HALF)

\* ------------------------------------------------------------ drawing operations

\* a piece of text on the panel: kind "pct" is "<n>%", "degC" is "<n>C", "na" is "N/A",
\* "waiting" is "Waiting for data...", "blank" is " ", "none" is nothing drawn
Text(kind, neg, n) == [kind |-> kind, neg |-> neg, n |-> n]
NoText == Text("none", FALSE, 0)
NAText == Text("na", FALSE, 0)

\* one call made by a step: to the TFT, the backlight pin or the notify characteristic
Op(op, tgt, a, b, col, txt, m) ==
  [op |-> op, tgt |-> tgt, a |-> a, b |-> b, col |-> col, txt |-> txt, m |-> m]

FillScreen == Op("fillScreen", "screen", 0, 0, "BLACK", NoText, DefaultMetrics)
FillRect(tgt, from, w, col) == Op("fillRect", tgt, from, w, col, NoText, DefaultMetrics)
DrawString(tgt, txt) == Op("drawString", tgt, 0, 0, "WHITE", txt, DefaultMetrics)
Backlight(level) == Op("digitalWrite", "LCD_BACKLIGHT", 0, 0, level, NoText, DefaultMetrics)
Notify(m) == Op("notify", "metricsCharacteristic", 0, 0, "", NoText, m)

\* printf("%.0f"): round to nearest, ties to even; the sign is printed also for -0
RoundHalfEven(t) ==
  LET q == t \div 10
      r == t % 10
  IN  IF r < 5 THEN q
      ELSE IF r > 5 THEN q + 1
      ELSE IF q % 2 = 0 THEN q ELSE q + 1

Fmt0(kind, v) ==
  IF v < 0 THEN Text(kind, TRUE, RoundHalfEven(0 - v)) ELSE Text(kind, FALSE, RoundHalfEven(v))

\* barGeom: the x offset and the width of a bar's track
barX == PADDING + LABEL_W + 6
barW == SCREEN_W - barX - PADDING

\* the fill colour of each bar (updateBarsAndTemps' arguments)
BarColor(tgt) ==
  CASE tgt = "cpu" -> "GREEN" [] tgt = "ram" -> "CYAN" [] tgt = "gpu" -> "ORANGE"

\* updateBarFill's newW: clamp to [0,100], then (int)(bw * (v / 100))
BarWidth(value) ==
  LET v == IF value < 0 THEN 0 ELSE IF value > 1000 THEN 1000 ELSE value
  IN  (barW * v) \div 1000

\* a variant of updateBarFill that repaints a growing bar from its left end; C12 tells
\* it from updateBarFill
updateBarFillFromLeft(tgt, value, lastW) ==
  LET newW == BarWidth(value)
      lw == IF lastW < 0 THEN 0 ELSE lastW
  IN  IF newW = lw THEN [w |-> lw, ops |-> <<>>]
      ELSE [w |-> newW,
            ops |-> << IF newW > lw
                         THEN FillRect(tgt, 0, newW, BarColor(tgt))
                         ELSE FillRect(tgt, newW, lw - newW, "DARKGREY"),
                       DrawString(tgt, Fmt0("pct", value)) >>]

\* a variant of updateBarFill that does not store the new width; C11 tells it from
\* updateBarFill
updateBarFillForgets(tgt, value, lastW) ==
  LET newW == BarWidth(value)
      lw == IF lastW < 0 THEN 0 ELSE lastW
  IN  IF newW = lw THEN [w |-> lw, ops |-> <<>>]
      ELSE [w |-> lw,
            ops |-> << IF newW > lw
                         THEN FillRect(tgt, lw, newW - lw, BarColor(tgt))
                         ELSE FillRect(tgt, newW, lw - newW, "DARKGREY"),
                       DrawString(tgt, Fmt0("pct", value)) >>]

\* updateBarFill(y, value, color, lastWRef): [w |-> lastWRef afterwards, ops |-> the calls]
updateBarFill(tgt, value, lastW) ==
  LET newW == BarWidth(value)
      lw == IF lastW < 0 THEN 0 ELSE lastW
  IN  IF newW = lw THEN [w |-> lw, ops |-> <<>>]
      ELSE [w |-> newW,
            ops |-> << IF newW > lw
                         THEN FillRect(tgt, lw, newW - lw, BarColor(tgt))
                         ELSE FillRect(tgt, newW, lw - newW, "DARKGREY"),
                       DrawString(tgt, Fmt0("pct", value)) >>]

\* drawTemp, and the inlined GPU temperature text of updateBarsAndTemps
drawTemp(tgt, tempC) ==
  IF tempC < 0 THEN <<DrawString(tgt, NAText)>>
  ELSE <<DrawString(tgt, Fmt0("degC", tempC))>>

\* struct LastDrawn with its initialisers
LastDrawnUnset ==
  [cpu |-> CACHE_UNSET, ram |-> CACHE_UNSET, gpu |-> CACHE_UNSET,
   tempC |-> CACHE_UNSET, gpuTempC |-> CACHE_UNSET]

\* the draw caches as one value: the three last bar widths and lastDrawn
Caches(cpuW, ramW, gpuW, drawn) ==
  [cpuW |-> cpuW, ramW |-> ramW, gpuW |-> gpuW, drawn |-> drawn]

\* resetDrawCaches
resetDrawCaches == Caches(WIDTH_UNSET, WIDTH_UNSET, WIDTH_UNSET, LastDrawnUnset)

\* (int)(tempC * 10), -1 when negative
Tenths(t) == IF t < 0 THEN -1 ELSE t

\* (int)(gpu + 0.5f), -1 when negative
GpuInt(g) == IF g < 0 THEN -1 ELSE (g + 5) \div 10

\* a variant of GpuBar that updates the bar whether or not gpuInt changed; C24 tells it
\* from GpuBar
GpuBarUngated(m, c) == updateBarFill("gpu", IF m.gpu < 0 THEN 0 ELSE m.gpu, c.gpuW)

\* the GPU branch of updateBarsAndTemps: the bar is updated only when gpuInt changed
GpuBar(m, c) ==
  IF GpuInt(m.gpu) # c.drawn.gpu
    THEN updateBarFill("gpu", IF m.gpu < 0 THEN 0 ELSE m.gpu, c.gpuW)
    ELSE [w |-> c.gpuW, ops |-> <<>>]

\* updateBarsAndTemps(m) from caches c: [c |-> the caches afterwards, ops |-> the calls]
updateBarsAndTemps(m, c) ==
  LET cpu == updateBarFill("cpu", m.cpu, c.cpuW)
      tempOps == IF Tenths(m.tempC) # c.drawn.tempC THEN drawTemp("temp", m.tempC) ELSE <<>>
      ram == updateBarFill("ram", m.ram, c.ramW)
      gpu == GpuBar(m, c)
      gtOps == IF Tenths(m.gpuTempC) # c.drawn.gpuTempC
                 THEN drawTemp("gpuTemp", m.gpuTempC) ELSE <<>>
  IN  [c |-> Caches(cpu.w, ram.w, gpu.w,
                    [c.drawn EXCEPT !.tempC = Tenths(m.tempC),
                                    !.gpu = GpuInt(m.gpu),
                                    !.gpuTempC = Tenths(m.gpuTempC)]),
       ops |-> cpu.ops \o tempOps \o ram.ops \o gpu.ops \o gtOps]

\* a variant of drawStatus for which a receipt exactly FRESH_MS old is still fresh; C14
\* tells it from drawStatus
drawStatusInclusive(now, lastRx, once) ==
  LET fresh == Elapsed(now, lastRx) <= FRESH_MS
  IN  << Op("drawStatus", "status", 0, 0, IF fresh THEN "GREEN" ELSE "RED",
            IF once THEN Text("blank", FALSE, 0) ELSE Text("waiting", FALSE, 0),
            DefaultMetrics) >>

\* drawStatus at time now: the dot is green iff fresh; the text depends on receivedOnce
drawStatus(now, lastRx, once) ==
  LET fresh == Elapsed(now, lastRx) < FRESH_MS
  IN  << Op("drawStatus", "status", 0, 0, IF fresh THEN "GREEN" ELSE "RED",
            IF once THEN Text("blank", FALSE, 0) ELSE Text("waiting", FALSE, 0),
            DefaultMetrics) >>

\* drawStaticLayoutOnce: clear, header, labels and the three empty bar slots
drawStaticLayoutOnce ==
  << FillScreen,
     Op("drawHeader", "header", 0, 0, "WHITE", NoText, DefaultMetrics),
     Op("drawLabels", "labels", 0, 0, "WHITE", NoText, DefaultMetrics),
     FillRect("cpu", 0, barW, "DARKGREY"),
     FillRect("ram", 0, barW, "DARKGREY"),
     FillRect("gpu", 0, barW, "DARKGREY") >>

\* ------------------------------------------------------------ what the host sends

\* records of the wire format CPU%,CPU_TEMP_C,RAM%,GPU%,GPU_TEMP_C
RecA == <<"1", ",", "2", ",", "3", ",", "4", ",", "5">>
RecB == <<"6", ",", "7", ",", "8", ",", "9", ",", "0">>
\* every bar half full
RecHalf == <<"5", "0", ",", "5", "5", ".", "4", ",", "5", "0", ",", "5", "0", ",", "6", "7">>
\* an idle machine without sensors: loads 0, temperatures and GPU unavailable
RecIdle == <<"0", ",", "-", "1", ",", "0", ",", "-", "1", ",", "-", "1">>
\* four fields only
RecShort == <<"1", ",", "2", ",", "3", ",", "4">>

\* every bar full
RecFull == <<"1", "0", "0", ",", "5", "5", ".", "4", ",", "1", "0", "0", ",", "1", "0", "0",
             ",", "6", "7">>

\* a record of exactly n bytes: RecA with leading zeros in its first field
RecOfLen(n) == [i \in 1..(n - Len(RecA)) |-> "0"] \o RecA
\* bytes that are no record: letters, separators, signs, a carriage return
Garbage == <<"x", ",", "-", ".", "\r", ",", "x", " ">>

\* six fields
RecSix == RecA \o <<",", "6">>

\* five fields of which the first, third and fifth hold no number
RecJunk == <<"x", ",", "2", ",", ",", "4", ",", "-">>
\* five fields: signed, fraction only, two signs, digits then a letter, leading space
RecOdd == <<"+", "3", ",", ".", "5", ",", "-", "-", "1", ",", "1", "x", ",", " ", "7">>
\* five empty fields
RecEmpty == <<",", ",", ",", ",">>

\* RecHalf with the GPU load 0.4 lower and the GPU temperature 0.2 higher
RecNear == <<"5", "0", ",", "5", "5", ".", "4", ",", "5", "0", ",", "4", "9", ".", "6", ",",
             "6", "7", ".", "2">>
\* RecIdle with a GPU that reports load 0
RecZero == <<"0", ",", "-", "1", ",", "0", ",", "0", ",", "-", "1">>

\* CPU and RAM load above 100
RecOver == <<"1", "5", "0", ",", "5", "5", ".", "4", ",", "1", "5", "0", ",", "1", "0", "0",
             ",", "6", "7">>
\* CPU and RAM load 1.4, and 1.5: the same bar width, another integer percent
RecLow == <<"1", ".", "4", ",", "5", "5", ".", "4", ",", "1", ".", "4", ",", "5", "0", ",",
            "6", "7">>
RecLowUp == <<"1", ".", "5", ",", "5", "5", ".", "4", ",", "1", ".", "5", ",", "5", "0", ",",
              "6", "7">>

\* the decimal text the host writes for a value given in tenths: sign, integer digits,
\* and a point with one digit when the value is not whole
DigitChar(d) == <<"0", "1", "2", "3", "4", "5", "6", "7", "8", "9">>[d + 1]
RECURSIVE NatText(_)
NatText(n) == IF n < 10 THEN <<DigitChar(n)>> ELSE Append(NatText(n \div 10), DigitChar(n % 10))
Decimal(v) ==
  LET a == IF v < 0 THEN 0 - v ELSE v
  IN  (IF v < 0 THEN <<"-">> ELSE <<>>) \o NatText(a \div 10)
        \o (IF a % 10 = 0 THEN <<>> ELSE <<".", DigitChar(a % 10)>>)

\* the values a field takes: unavailable (-1), 0, 55.4 and 150 (above a full bar)
FieldValues == {UNAVAILABLE, 0, 554, 1500}
\* five values in the order of the wire format
ValueRows == [1..5 -> FieldValues]
\* the record the host writes for a row of five values
RecordOf == [vs \in ValueRows |->
               Decimal(vs[1]) \o <<",">> \o Decimal(vs[2]) \o <<",">> \o Decimal(vs[3])
                 \o <<",">> \o Decimal(vs[4]) \o <<",">> \o Decimal(vs[5])]
\* the row whose fields are those of vs moved one place to the right
Rotated(vs) == [i \in 1..5 |-> vs[IF i = 1 THEN 5 ELSE i - 1]]

NL == <<"\n">>

\* n bytes that are neither a terminator nor a carriage return
Filler(n) == [i \in 1..n |-> "x"]

\* an item of a script: the bytes, and the transport that carries them
Ser(bytes) == [via |-> "serial", bytes |-> bytes]
Ble(bytes) == [via |-> "ble", bytes |-> bytes]

\* all sequences of 1 to n items of menu
SeqsUpTo(menu, n) == UNION {[1..k -> menu] : k \in 1..n}

\* the snapshot a record stands for
Snapshot(rec) == parseLine(rec).m

\* ------------------------------------------------------------ state

VARIABLES
  millis,         \* the value millis() returns
  pc,             \* where loop() is: "top", "ble", "serial", "sleep", "status"
  wire,           \* bytes of the record the host is writing that have not reached the UART
  serialRx,       \* bytes Serial.available() reports
  lastBlePacket,  \* written by onWrite, read and cleared by loop()
  haveBlePacket,
  incoming,       \* loop()'s copy of the BLE packet, the part not yet fed
  lineBuf,
  current,
  receivedOnce,
  lastRxMillis,
  lastLineShown,
  isLcdOn,
  backlight,      \* level of the LCD_BACKLIGHT pin
  lastRender,
  lastCpuW, lastRamW, lastGpuW,
  lastDrawn,
  tft,            \* what the panel shows
  ops,            \* the calls made by the latest step, in order
  fed,            \* per transport: non-CR bytes fed to the assembler since its last terminator
  iter,           \* set when loop() is entered with a complete record pending on both
                  \* transports and an empty line buffer: the two records and the
                  \* snapshots accepted since; cleared when the serial port is drained
  script,         \* what the host sends in this run, in order: [via, bytes] items
  sent,           \* how many items of the script the host has sent
  ticks           \* clock advances left in this run

vars ==
  << millis, pc, wire, serialRx, lastBlePacket, haveBlePacket, incoming, lineBuf,
     current, receivedOnce, lastRxMillis, lastLineShown, isLcdOn, backlight,
     lastRender, lastCpuW, lastRamW, lastGpuW, lastDrawn, tft, ops, fed, iter, script, sent,
     ticks >>

progVars ==
  << current, receivedOnce, lastRxMillis, lastLineShown, isLcdOn, backlight,
     lastCpuW, lastRamW, lastGpuW, lastDrawn, tft >>

envVars == << wire, script, sent, ticks >>

caches == Caches(lastCpuW, lastRamW, lastGpuW, lastDrawn)

\* ------------------------------------------------------------ the panel

\* the three bars
Bars == {"cpu", "ram", "gpu"}

\* the panel after fillScreen(TFT_BLACK): no text, no layout, and for each bar the set
\* of columns of its track (0 is the leftmost) shown in the bar's fill colour
BlankPanel ==
  [cpu |-> NoText, ram |-> NoText, gpu |-> NoText, temp |-> NoText, gpuTemp |-> NoText,
   status |-> NoText, layout |-> FALSE, fill |-> [b \in Bars |-> {}]]

\* the effect of one call on what the panel shows
ApplyOp(p, o) ==
  CASE o.op = "fillScreen" -> BlankPanel
    [] o.op = "drawLabels" -> [p EXCEPT !.layout = TRUE]
    [] o.op = "fillRect" ->
         [p EXCEPT !.fill[o.tgt] =
            IF o.col = "DARKGREY" THEN @ \ (o.a .. o.a + o.b - 1)
            ELSE @ \cup (o.a .. o.a + o.b - 1)]
    [] o.op = "drawString" -> [p EXCEPT ![o.tgt] = o.txt]
    [] o.op = "drawStatus" -> [p EXCEPT !.status = o.txt]
    [] OTHER -> p

RECURSIVE ApplyOps(_, _)
ApplyOps(p, os) == IF os = <<>> THEN p ELSE ApplyOps(ApplyOp(p, Head(os)), Tail(os))

\* ------------------------------------------------------------ power control

\* a variant of lcdSleep that leaves the backlight on; C8 tells it from lcdSleep
lcdSleepLit(on) ==
  IF ~on THEN [on |-> FALSE, ops |-> <<>>]
  ELSE [on |-> FALSE, ops |-> <<FillScreen>>]

\* lcdSleep from power state on: [on, ops]
lcdSleep(on) ==
  IF ~on THEN [on |-> FALSE, ops |-> <<>>]
  ELSE [on |-> FALSE, ops |-> <<FillScreen, Backlight("LOW")>>]

\* a variant of lcdWake that renders before it redraws the layout and resets the
\* caches; C9 tells it from lcdWake
lcdWakeRenderFirst(on, m, c, t, lastRx) ==
  IF on THEN [on |-> TRUE, c |-> c, ops |-> <<>>, t |-> t]
  ELSE LET t2 == TimeAdd(t, WAKE_DELAY_MS)
           r == updateBarsAndTemps(m, c)
       IN  [on |-> TRUE, c |-> resetDrawCaches, t |-> t2,
            ops |-> <<Backlight("HIGH")>> \o r.ops \o drawStaticLayoutOnce
                    \o <<Op("resetDrawCaches", "caches", 0, 0, "", NoText, DefaultMetrics)>>
                    \o drawStatus(t2, lastRx, TRUE)]

\* lcdWake at time t with current snapshot m, last receipt lastRx and caches c:
\* [on, c, ops, t |-> the time afterwards]
lcdWake(on, m, c, t, lastRx) ==
  IF on THEN [on |-> TRUE, c |-> c, ops |-> <<>>, t |-> t]
  ELSE LET t2 == TimeAdd(t, WAKE_DELAY_MS)
           r == updateBarsAndTemps(m, resetDrawCaches)
       IN  [on |-> TRUE, c |-> r.c, t |-> t2,
            ops |-> <<Backlight("HIGH")>> \o drawStaticLayoutOnce
                    \o <<Op("resetDrawCaches", "caches", 0, 0, "", NoText, DefaultMetrics)>>
                    \o r.ops \o drawStatus(t2, lastRx, TRUE)]

\* the level the backlight pin is left at by a sequence of calls
RECURSIVE PinAfter(_, _)
PinAfter(level, os) ==
  IF os = <<>> THEN level
  ELSE PinAfter(IF Head(os).op = "digitalWrite" THEN Head(os).col ELSE level, Tail(os))

\* ------------------------------------------------------------ the line assembler

\* the accept path of loop(): the snapshot m parsed from the trimmed line is taken over,
\* rendered, the status line drawn, the display woken; the serial path then notifies
Accept(m, trimmed, echo) ==
  \E r \in {updateBarsAndTemps(m, caches)} :
  \E w \in {lcdWake(isLcdOn, m, r.c, millis, millis)} :
  \E all \in {r.ops \o drawStatus(millis, millis, TRUE) \o w.ops
                \o (IF echo THEN <<Notify(m)>> ELSE <<>>)} :
      /\ current' = m
      /\ receivedOnce' = TRUE
      /\ lastRxMillis' = millis
      /\ lastLineShown' = trimmed
      /\ lastCpuW' = w.c.cpuW
      /\ lastRamW' = w.c.ramW
      /\ lastGpuW' = w.c.gpuW
      /\ lastDrawn' = w.c.drawn
      /\ isLcdOn' = w.on
      /\ millis' = w.t
      /\ backlight' = PinAfter(backlight, all)
      /\ tft' = ApplyOps(tft, all)
      /\ ops' = all

\* a variant of FeedByte whose guard lets the line buffer grow to LINE_CAP + 1 bytes;
\* C18 tells it from FeedByte
FeedByteOneMore(c, echo) ==
  /\ fed' = [fed EXCEPT ![IF echo THEN "serial" ELSE "ble"] =
                IF c = "\n" THEN 0 ELSE IF c = "\r" THEN @ ELSE @ + 1]
  /\ IF c = "\n"
       THEN /\ lineBuf' = <<>>
            /\ \E trimmed \in {Trim(lineBuf)} :
               \E p \in {parseLine(trimmed)} :
                  IF p.ok THEN /\ Accept(p.m, trimmed, echo)
                               /\ iter' = IF iter.both
                                            THEN [iter EXCEPT !.got = Append(@, p.m)]
                                            ELSE iter
                  ELSE /\ UNCHANGED << progVars, millis, iter >>
                       /\ ops' = <<>>
       ELSE /\ lineBuf' = IF c = "\r" THEN lineBuf
                          ELSE IF Len(lineBuf) <= LINE_CAP THEN Append(lineBuf, c)
                          ELSE <<>>
            /\ UNCHANGED << progVars, millis, iter >>
            /\ ops' = <<>>

\* a variant of FeedByte that keeps a rejected line in the line buffer; C17 tells it
\* from FeedByte
FeedByteKeepsRejected(c, echo) ==
  /\ fed' = [fed EXCEPT ![IF echo THEN "serial" ELSE "ble"] =
                IF c = "\n" THEN 0 ELSE IF c = "\r" THEN @ ELSE @ + 1]
  /\ IF c = "\n"
       THEN \E trimmed \in {Trim(lineBuf)} :
            \E p \in {parseLine(trimmed)} :
               IF p.ok THEN /\ Accept(p.m, trimmed, echo)
                            /\ lineBuf' = <<>>
                            /\ iter' = IF iter.both
                                         THEN [iter EXCEPT !.got = Append(@, p.m)]
                                         ELSE iter
               ELSE /\ UNCHANGED << progVars, millis, iter, lineBuf >>
                    /\ ops' = <<>>
       ELSE /\ lineBuf' = IF c = "\r" THEN lineBuf
                          ELSE IF Len(lineBuf) < LINE_CAP THEN Append(lineBuf, c)
                          ELSE <<>>
            /\ UNCHANGED << progVars, millis, iter >>
            /\ ops' = <<>>

\* what loop() does with one character c of either transport
FeedByte(c, echo) ==
  /\ fed' = [fed EXCEPT ![IF echo THEN "serial" ELSE "ble"] =
                IF c = "\n" THEN 0 ELSE IF c = "\r" THEN @ ELSE @ + 1]
  /\ IF c = "\n"
       THEN /\ lineBuf' = <<>>
            /\ \E trimmed \in {Trim(lineBuf)} :
               \E p \in {parseLine(trimmed)} :
                  IF p.ok THEN /\ Accept(p.m, trimmed, echo)
                               /\ iter' = IF iter.both
                                            THEN [iter EXCEPT !.got = Append(@, p.m)]
                                            ELSE iter
                  ELSE /\ UNCHANGED << progVars, millis, iter >>
                       /\ ops' = <<>>
       ELSE /\ lineBuf' = IF c = "\r" THEN lineBuf
                          ELSE IF Len(lineBuf) < LINE_CAP THEN Append(lineBuf, c)
                          ELSE <<>>
            /\ UNCHANGED << progVars, millis, iter >>
            /\ ops' = <<>>

\* the character loop() feeds next is a line terminator
AtLineEnd ==
  \/ pc = "ble" /\ incoming # <<>> /\ Head(incoming) = "\n"
  \/ pc = "serial" /\ serialRx # <<>> /\ Head(serialRx) = "\n"

\* the next step of loop() hands a line to parseLine and accepts it
WillAccept == AtLineEnd /\ parseLine(Trim(lineBuf)).ok

\* the step feeds the next character of the transport being read to the assembler
Feeds ==
  \/ pc = "ble" /\ incoming # <<>> /\ incoming' = Tail(incoming)
  \/ pc = "serial" /\ serialRx # <<>> /\ serialRx' = Tail(serialRx)

\* the step hands a line to parseLine and accepts it
Accepts == WillAccept /\ Feeds

\* ------------------------------------------------------------ loop()

\* bytes hold exactly one line that fits the line buffer, a record parseLine accepts,
\* with its terminator (which loop() appends to a BLE packet that lacks it)
OneRecord(bytes, terminated) ==
  /\ bytes # <<>>
  /\ Len(bytes) <= LINE_CAP
  /\ \A i \in 1..(Len(bytes) - 1) : bytes[i] # "\n"
  /\ terminated => bytes[Len(bytes)] = "\n"
  /\ parseLine(Trim(bytes)).ok

\* loop() is entered with a complete record pending on each transport and an empty
\* line buffer
BothPending ==
  /\ lineBuf = <<>>
  /\ haveBlePacket /\ OneRecord(lastBlePacket, FALSE)
  /\ OneRecord(serialRx, TRUE)

NotBoth == [both |-> FALSE, ble |-> <<>>, serial |-> <<>>, got |-> <<>>]

\* a variant of LoopTop that leaves a pending BLE packet for a later iteration when
\* serial bytes are pending too; C16 tells it from LoopTop
LoopTopOneTransport ==
  /\ pc = "top"
  /\ IF haveBlePacket /\ serialRx = <<>>
       THEN /\ pc' = "ble"
            /\ incoming' = IF lastBlePacket # <<>> /\ lastBlePacket[Len(lastBlePacket)] # "\n"
                             THEN Append(lastBlePacket, "\n")
                             ELSE lastBlePacket
       ELSE /\ pc' = "serial"
            /\ incoming' = <<>>
  /\ iter' = IF BothPending
               THEN [both |-> TRUE, ble |-> lastBlePacket, serial |-> serialRx, got |-> <<>>]
               ELSE NotBoth
  /\ ops' = <<>>
  /\ UNCHANGED << millis, serialRx, lastBlePacket, haveBlePacket, lineBuf, progVars,
                  lastRender, fed, envVars >>

\* a variant of LoopTop that feeds a BLE packet as it was written, without appending a
\* newline; C22 tells it from LoopTop
LoopTopAsWritten ==
  /\ pc = "top"
  /\ IF haveBlePacket
       THEN /\ pc' = "ble"
            /\ incoming' = lastBlePacket
       ELSE /\ pc' = "serial"
            /\ incoming' = <<>>
  /\ iter' = IF BothPending
               THEN [both |-> TRUE, ble |-> lastBlePacket, serial |-> serialRx, got |-> <<>>]
               ELSE NotBoth
  /\ ops' = <<>>
  /\ UNCHANGED << millis, serialRx, lastBlePacket, haveBlePacket, lineBuf, progVars,
                  lastRender, fed, envVars >>

\* entry of loop(): a pending BLE packet is copied, with a newline appended if missing
LoopTop ==
  /\ pc = "top"
  /\ IF haveBlePacket
       THEN /\ pc' = "ble"
            /\ incoming' = IF lastBlePacket # <<>> /\ lastBlePacket[Len(lastBlePacket)] # "\n"
                             THEN Append(lastBlePacket, "\n")
                             ELSE lastBlePacket
       ELSE /\ pc' = "serial"
            /\ incoming' = <<>>
  /\ iter' = IF BothPending
               THEN [both |-> TRUE, ble |-> lastBlePacket, serial |-> serialRx, got |-> <<>>]
               ELSE NotBoth
  /\ ops' = <<>>
  /\ UNCHANGED << millis, serialRx, lastBlePacket, haveBlePacket, lineBuf, progVars,
                  lastRender, fed, envVars >>

\* one turn of the for loop over the packet's characters
BleByte ==
  /\ pc = "ble"
  /\ incoming # <<>>
  /\ incoming' = Tail(incoming)
  /\ FeedByte(Head(incoming), FALSE)
  /\ UNCHANGED << pc, serialRx, lastBlePacket, haveBlePacket, lastRender, envVars >>

\* after the for loop: the flag and the packet are cleared
BleDone ==
  /\ pc = "ble"
  /\ incoming = <<>>
  /\ haveBlePacket' = FALSE
  /\ lastBlePacket' = <<>>
  /\ pc' = "serial"
  /\ ops' = <<>>
  /\ UNCHANGED << millis, serialRx, incoming, lineBuf, progVars, lastRender, fed, iter, envVars >>

\* one turn of while (Serial.available())
SerialByte ==
  /\ pc = "serial"
  /\ serialRx # <<>>
  /\ serialRx' = Tail(serialRx)
  /\ FeedByte(Head(serialRx), TRUE)
  /\ UNCHANGED << pc, lastBlePacket, haveBlePacket, incoming, lastRender, envVars >>

\* Serial.available() returns 0
SerialDone ==
  /\ pc = "serial"
  /\ serialRx = <<>>
  /\ pc' = "sleep"
  /\ iter' = NotBoth
  /\ ops' = <<>>
  /\ UNCHANGED << millis, serialRx, lastBlePacket, haveBlePacket, incoming, lineBuf,
                  progVars, lastRender, fed, envVars >>

\* a variant of SleepDue that is true at the timeout already; C6 tells it from SleepDue
SleepDueAtTimeout(on, now, lastRx) == on /\ Elapsed(now, lastRx) >= LCD_SLEEP_TIMEOUT_MS

\* the condition of the LCD sleep check
SleepDue(on, now, lastRx) == on /\ Elapsed(now, lastRx) > LCD_SLEEP_TIMEOUT_MS

\* the LCD sleep check
SleepCheck ==
  /\ pc = "sleep"
  /\ \E s \in {IF SleepDue(isLcdOn, millis, lastRxMillis)
                  THEN lcdSleep(isLcdOn)
                  ELSE [on |-> isLcdOn, ops |-> <<>>]} :
         /\ isLcdOn' = s.on
         /\ ops' = s.ops
         /\ backlight' = PinAfter(backlight, s.ops)
         /\ tft' = ApplyOps(tft, s.ops)
  /\ pc' = "status"
  /\ UNCHANGED << millis, serialRx, lastBlePacket, haveBlePacket, incoming, lineBuf,
                  current, receivedOnce, lastRxMillis, lastLineShown,
                  lastCpuW, lastRamW, lastGpuW, lastDrawn, lastRender, fed, iter, envVars >>

\* a variant of StatusRedraw that repaints when exactly STATUS_PERIOD_MS have passed;
\* C23 tells it from StatusRedraw
StatusRedrawAtPeriod ==
  /\ pc = "status"
  /\ IF Elapsed(millis, lastRender) >= STATUS_PERIOD_MS
       THEN /\ ops' = drawStatus(millis, lastRxMillis, receivedOnce)
            /\ lastRender' = millis
       ELSE /\ ops' = <<>>
            /\ lastRender' = lastRender
  /\ tft' = ApplyOps(tft, ops')
  /\ pc' = "top"
  /\ UNCHANGED << millis, serialRx, lastBlePacket, haveBlePacket, incoming, lineBuf,
                  current, receivedOnce, lastRxMillis, lastLineShown, isLcdOn, backlight,
                  lastCpuW, lastRamW, lastGpuW, lastDrawn, fed, iter,
                  envVars >>

\* the periodic status redraw
StatusRedraw ==
  /\ pc = "status"
  /\ IF Elapsed(millis, lastRender) > STATUS_PERIOD_MS
       THEN /\ ops' = drawStatus(millis, lastRxMillis, receivedOnce)
            /\ lastRender' = millis
       ELSE /\ ops' = <<>>
            /\ lastRender' = lastRender
  /\ tft' = ApplyOps(tft, ops')
  /\ pc' = "top"
  /\ UNCHANGED << millis, serialRx, lastBlePacket, haveBlePacket, incoming, lineBuf,
                  current, receivedOnce, lastRxMillis, lastLineShown, isLcdOn, backlight,
                  lastCpuW, lastRamW, lastGpuW, lastDrawn, fed, iter,
                  envVars >>

LoopStep ==
  LoopTop \/ BleByte \/ BleDone \/ SerialByte \/ SerialDone \/ SleepCheck \/ StatusRedraw

\* ------------------------------------------------------------ the environment

\* RxCallbacks::onWrite: the host writes the next item of its script, a non-empty
\* value, to the RX characteristic
onWrite ==
  /\ sent < Len(script)
  /\ script[sent + 1].via = "ble"
  /\ script[sent + 1].bytes # <<>>
  /\ lastBlePacket' = script[sent + 1].bytes
  /\ haveBlePacket' = TRUE
  /\ sent' = sent + 1
  /\ ops' = <<>>
  /\ UNCHANGED << millis, pc, wire, serialRx, incoming, lineBuf, progVars, lastRender,
                  fed, iter, script, ticks >>

\* the host starts writing the next item of its script to the serial port (seen by
\* loop() where it polls the port)
HostSend ==
  /\ sent < Len(script)
  /\ script[sent + 1].via = "serial"
  /\ pc = "serial"
  /\ wire = <<>>
  /\ wire' = script[sent + 1].bytes
  /\ sent' = sent + 1
  /\ ops' = <<>>
  /\ UNCHANGED << millis, pc, serialRx, lastBlePacket, haveBlePacket, incoming, lineBuf,
                  progVars, lastRender, fed, iter, script, ticks >>

\* the sizes of the bursts in which the bytes w on the wire can reach the UART
Bursts(w) == {Len(w)} \cup {k \in {FirstBurst} : k < Len(w)}

\* the next k bytes on the wire reach the UART; the rest follows in later bursts.
\* Bytes are seen by loop() only where it polls Serial.available(), so a burst
\* is delivered there, when the bytes before it have been read
SerialArrive(k) ==
  /\ wire # <<>>
  /\ pc = "serial"
  /\ serialRx = <<>>
  /\ k \in Bursts(wire)
  /\ serialRx' = SubSeq(wire, 1, k)
  /\ wire' = SubSeq(wire, k + 1, Len(wire))
  /\ ops' = <<>>
  /\ UNCHANGED << millis, pc, lastBlePacket, haveBlePacket, incoming, lineBuf,
                  progVars, lastRender, fed, iter, script, sent, ticks >>

\* the next step of loop() reads millis() and uses the value
ReadsClock == pc \in {"sleep", "status"} \/ WillAccept

\* d milliseconds pass; the clock is advanced where loop() is about to read it
Tick(d) ==
  /\ ticks > 0
  /\ ReadsClock
  /\ millis' = TimeAdd(millis, d)
  /\ ticks' = ticks - 1
  /\ ops' = <<>>
  /\ UNCHANGED << pc, wire, serialRx, lastBlePacket, haveBlePacket, incoming, lineBuf,
                  progVars, lastRender, fed, iter, script, sent >>

\* the clock advances the model takes
TickSteps == {1, LCD_SLEEP_TIMEOUT_MS}

Next ==
  \/ LoopStep
  \/ onWrite
  \/ HostSend
  \/ \E k \in Bursts(wire) : SerialArrive(k)
  \/ \E d \in TickSteps : Tick(d)

\* the state when loop() is first entered: the globals' initialisers and setup();
\* the host follows one of the given scripts and the clock advances at most n times
InitWith(scripts, n) ==
  /\ script \in scripts
  /\ fed = [serial |-> 0, ble |-> 0]
  /\ iter = NotBoth
  /\ millis = Time(SETUP_DELAY_MS)
  /\ pc = "top"
  /\ wire = <<>>
  /\ serialRx = <<>>
  /\ lastBlePacket = <<>>
  /\ haveBlePacket = FALSE
  /\ incoming = <<>>
  /\ lineBuf = <<>>
  /\ current = DefaultMetrics
  /\ receivedOnce = FALSE
  /\ lastRxMillis = Time(0)
  /\ lastLineShown = <<>>
  /\ isLcdOn = TRUE
  /\ backlight = "HIGH"
  /\ lastRender = Time(0)
  /\ lastCpuW = WIDTH_UNSET
  /\ lastRamW = WIDTH_UNSET
  /\ lastGpuW = WIDTH_UNSET
  /\ lastDrawn = LastDrawnUnset
  /\ tft = ApplyOps(BlankPanel, drawStaticLayoutOnce)
  /\ ops = <<>>
  /\ sent = 0
  /\ ticks = n

\* ------------------------------------------------------------ specifications

\* records and rejected lines on both transports, with the clock advancing past the
\* sleep timeout
Scripts ==
  { <<Ser(RecHalf \o NL), Ser(RecIdle \o NL)>>,
    <<Ser(RecIdle \o NL), Ble(RecA)>>,
    <<Ble(RecA), Ser(RecShort \o NL)>>,
    <<Ble(RecShort), Ser(NL), Ser(RecHalf \o NL)>>,
    <<Ser(RecHalf \o NL), Ble(RecIdle \o NL)>> }
Spec == InitWith(Scripts, MaxTicks) /\ [][Next]_vars

\* loop() never blocks: it always takes its next step.  The runs that matter for the
\* sleep timeout: a snapshot on either transport, a rejected line, the clock advancing
SleepScripts ==
  { <<Ser(RecHalf \o NL), Ble(RecIdle \o NL)>>,
    <<Ble(RecShort), Ser(RecA \o NL)>> }
FairSpec == InitWith(SleepScripts, MaxTicks) /\ [][Next]_vars /\ WF_vars(LoopStep)

\* both transports carry well-formed records only
MuxMenu == {Ser(RecA \o NL), Ser(RecHalf \o NL), Ble(RecB), Ble(RecIdle \o NL)}
InitMux == InitWith(SeqsUpTo(MuxMenu, ScriptLen), 1)
SpecMux == InitMux /\ [][Next]_vars

\* lines longer than the line buffer, on either transport
OverflowScripts ==
  { <<Ser(Filler(LINE_CAP + 1) \o RecA \o NL)>>,
    <<Ser(Filler(LINE_CAP + 2)), Ser(RecA \o NL)>>,
    <<Ser(Filler(LINE_CAP + 1) \o <<"9">>), Ser(RecB \o NL)>>,
    <<Ser(Filler(LINE_CAP + 1) \o <<",">>), Ser(RecA \o NL)>>,
    <<Ble(Filler(LINE_CAP + 1) \o RecB)>>,
    <<Ble(Filler(LINE_CAP + 2)), Ble(RecB)>> }
InitOverflow == InitWith(OverflowScripts, 1)
SpecOverflow == InitOverflow /\ [][Next]_vars

\* the bars go 0, 50, 100, 50, 0, the records alternating between the transports
BarScripts ==
  { <<Ser(RecIdle \o NL), Ble(RecHalf), Ser(RecFull \o NL), Ble(RecHalf \o NL),
      Ser(RecIdle \o NL)>> }
InitBar == InitWith(BarScripts, 1)
SpecBar == InitBar /\ [][Next]_vars

\* the host has written the first two items of its script, a BLE packet and a serial
\* record, before loop() is entered: both are pending at the entry
BothScripts ==
  { <<Ble(RecB), Ser(RecA \o NL), Ser(RecHalf \o NL), Ble(RecIdle)>>,
    <<Ble(RecIdle \o NL), Ser(RecHalf \o NL), Ble(RecA), Ser(RecShort \o NL)>>,
    <<Ble(RecHalf), Ser(RecHalf \o NL), Ser(RecIdle \o NL), Ble(RecShort)>> }
InitBoth ==
  /\ script \in BothScripts
  /\ sent = 2
  /\ lastBlePacket = script[1].bytes
  /\ haveBlePacket = TRUE
  /\ serialRx = script[2].bytes
  /\ wire = <<>>
  /\ fed = [serial |-> 0, ble |-> 0]
  /\ iter = NotBoth
  /\ millis = Time(SETUP_DELAY_MS)
  /\ pc = "top"
  /\ incoming = <<>>
  /\ lineBuf = <<>>
  /\ current = DefaultMetrics
  /\ receivedOnce = FALSE
  /\ lastRxMillis = Time(0)
  /\ lastLineShown = <<>>
  /\ isLcdOn = TRUE
  /\ backlight = "HIGH"
  /\ lastRender = Time(0)
  /\ lastCpuW = WIDTH_UNSET
  /\ lastRamW = WIDTH_UNSET
  /\ lastGpuW = WIDTH_UNSET
  /\ lastDrawn = LastDrawnUnset
  /\ tft = ApplyOps(BlankPanel, drawStaticLayoutOnce)
  /\ ops = <<>>
  /\ ticks = MaxTicks
SpecBoth == InitBoth /\ [][Next]_vars

\* one transport carries garbage, oversized lines and rejected records, each ended by
\* a terminator, and then a well-formed record
GarbageScripts ==
  { <<Ser(Garbage \o NL), Ser(RecHalf \o NL)>>,
    <<Ser(Filler(LINE_CAP + 2) \o NL), Ser(RecA \o NL)>>,
    <<Ser(Filler(LINE_CAP + 1) \o RecB \o NL), Ser(RecOfLen(LINE_CAP) \o <<"\r">> \o NL)>>,
    <<Ser(RecShort \o NL \o NL), Ser(RecIdle \o <<"\r">> \o NL)>>,
    <<Ble(Garbage), Ble(RecB)>>,
    <<Ser(RecJunk \o NL), Ser(RecOdd \o NL)>>,
    <<Ble(RecEmpty), Ble(RecOdd)>>,
    <<Ser(RecSix \o NL), Ser(RecB \o NL)>>,
    <<Ble(Filler(LINE_CAP + 2) \o NL \o RecShort), Ble(RecOfLen(LINE_CAP))>> }
InitGarbage == InitWith(GarbageScripts, 1)
SpecGarbage == InitGarbage /\ [][Next]_vars

\* every record of five values of FieldValues arrives on the serial port; those that
\* begin with 150, -1, 55.4 are followed on BLE by the record of the same values moved
\* one field on
ValueScripts ==
  {<<Ser(RecordOf[vs] \o NL)>> : vs \in ValueRows}
    \cup {<<Ser(RecordOf[vs] \o NL), Ble(RecordOf[Rotated(vs)])>> :
            vs \in {r \in ValueRows : r[1] = 1500 /\ r[2] = UNAVAILABLE /\ r[3] = 554}}
InitValues == InitWith(ValueScripts, 1)
SpecValues == InitValues /\ [][Next]_vars

\* setup() has taken one millisecond less than the status period (the display and the
\* BLE stack take their time to start); loop() never blocks
CadenceScripts ==
  { <<Ser(RecHalf \o NL), Ble(RecHalf)>>,
    <<Ble(RecShort), Ser(RecIdle \o NL)>> }
InitCadence ==
  /\ script \in CadenceScripts
  /\ millis = Time(STATUS_PERIOD_MS - 1)
  /\ fed = [serial |-> 0, ble |-> 0]
  /\ iter = NotBoth
  /\ pc = "top"
  /\ wire = <<>>
  /\ serialRx = <<>>
  /\ lastBlePacket = <<>>
  /\ haveBlePacket = FALSE
  /\ incoming = <<>>
  /\ lineBuf = <<>>
  /\ current = DefaultMetrics
  /\ receivedOnce = FALSE
  /\ lastRxMillis = Time(0)
  /\ lastLineShown = <<>>
  /\ isLcdOn = TRUE
  /\ backlight = "HIGH"
  /\ lastRender = Time(0)
  /\ lastCpuW = WIDTH_UNSET
  /\ lastRamW = WIDTH_UNSET
  /\ lastGpuW = WIDTH_UNSET
  /\ lastDrawn = LastDrawnUnset
  /\ tft = ApplyOps(BlankPanel, drawStaticLayoutOnce)
  /\ ops = <<>>
  /\ sent = 0
  /\ ticks = MaxTicks
FairCadence == InitCadence /\ [][Next]_vars /\ WF_vars(LoopStep)

\* snapshots that follow each other with the GPU load and the temperatures changing by
\* less than their cache keys tell, by more, and between a value and unavailable
GateScripts ==
  { <<Ser(RecHalf \o NL), Ser(RecNear \o NL), Ble(RecIdle)>>,
    <<Ble(RecIdle), Ser(RecZero \o NL), Ser(RecNear \o NL)>>,
    <<Ser(RecNear \o NL), Ble(RecHalf), Ser(RecHalf \o NL)>> }
InitGate == InitWith(GateScripts, 1)
SpecGate == InitGate /\ [][Next]_vars

\* loads that change without the bar width changing: above 100, and within one pixel
TextScripts ==
  { <<Ser(RecFull \o NL), Ser(RecOver \o NL)>>,
    <<Ble(RecLow), Ser(RecLowUp \o NL)>>,
    <<Ser(RecOver \o NL), Ble(RecHalf)>> }
InitText == InitWith(TextScripts, 1)
SpecText == InitText /\ [][Next]_vars

\* 49.7 days after boot, one millisecond before millis() wraps: the display is ON and
\* shows the snapshot of RecA, accepted a status period ago, when the status line was
\* last repainted; the host goes on sending
LastBeforeWrap == [hi |-> HALF - 1, lo |-> HALF - 1]
WrapScripts ==
  { <<Ser(RecHalf \o NL), Ble(RecIdle)>>,
    <<Ble(RecB), Ser(RecShort \o NL)>> }
InitWrap ==
  /\ script \in WrapScripts
  /\ millis = LastBeforeWrap
  /\ lastRxMillis = [hi |-> HALF - 1, lo |-> HALF - 1 - STATUS_PERIOD_MS]
  /\ lastRender = [hi |-> HALF - 1, lo |-> HALF - 1 - STATUS_PERIOD_MS]
  /\ current = Snapshot(RecA)
  /\ receivedOnce = TRUE
  /\ lastLineShown = RecA
  /\ isLcdOn = TRUE
  /\ backlight = "HIGH"
  /\ \E r \in {updateBarsAndTemps(Snapshot(RecA), resetDrawCaches)} :
       /\ lastCpuW = r.c.cpuW
       /\ lastRamW = r.c.ramW
       /\ lastGpuW = r.c.gpuW
       /\ lastDrawn = r.c.drawn
       /\ tft = ApplyOps(BlankPanel, drawStaticLayoutOnce \o r.ops
                           \o drawStatus(LastBeforeWrap, LastBeforeWrap, TRUE))
  /\ fed = [serial |-> 0, ble |-> 0]
  /\ iter = NotBoth
  /\ pc = "top"
  /\ wire = <<>>
  /\ serialRx = <<>>
  /\ lastBlePacket = <<>>
  /\ haveBlePacket = FALSE
  /\ incoming = <<>>
  /\ lineBuf = <<>>
  /\ ops = <<>>
  /\ sent = 0
  /\ ticks = MaxTicks
SpecWrap == InitWrap /\ [][Next]_vars

\* ------------------------------------------------------------ claims

\* the records the host has sent so far, without their terminators
SentRecords == {DropTrailingSpace(script[i].bytes) : i \in 1..sent}

\* C1: with well-formed records on both transports, every line handed to parseLine is a
\* record that was sent on one transport, and the current snapshot, once one was
\* accepted, is the snapshot of a record that was sent.
C1_LinesAreSentRecords ==
  /\ AtLineEnd => lineBuf \in SentRecords
  /\ receivedOnce => current \in {Snapshot(r) : r \in SentRecords}

\* the transport loop() is reading
Reading == IF pc = "ble" THEN "ble" ELSE "serial"

\* C2: the terminator of a line of more than 128 non-CR bytes hands nothing to the
\* parser: the step that reads it accepts no snapshot, leaves the last-receipt time
\* and the power state alone and makes no call.
C2_OversizedLineIsDropped ==
  [][(AtLineEnd /\ fed[Reading] > LINE_CAP /\ Feeds)
       => /\ UNCHANGED << current, receivedOnce, lastRxMillis, isLcdOn >>
          /\ ops' = <<>>]_vars

\* the host has sent its whole script and loop() has read all of it
AllRead ==
  /\ sent = Len(script)
  /\ wire = <<>> /\ serialRx = <<>>
  /\ ~haveBlePacket /\ incoming = <<>>
  /\ pc = "sleep"

\* the runs of C3: 130 bytes without terminator on the serial port, then a short record
C3Scripts == {sc \in OverflowScripts : Len(sc) = 2 /\ sc[1].via = "serial"}

\* C3: 130 non-terminator bytes followed by a short record and its terminator leave
\* the short record's five values as the current snapshot.
C3_RecordAfterOverflowIsParsed ==
  (script \in C3Scripts /\ AllRead)
    => receivedOnce /\ current = Snapshot(DropTrailingSpace(script[2].bytes))

\* the five fields of the panel that show a value
Fields == {"cpu", "ram", "gpu", "temp", "gpuTemp"}

\* C4: a text drawn for the CPU temperature, the GPU temperature or the GPU load while
\* the current snapshot holds -1 there is "N/A".
C4_UnavailableDrawsNA ==
  \A i \in 1..Len(ops) :
    ops[i].op = "drawString" =>
      /\ (ops[i].tgt = "temp" /\ current.tempC = UNAVAILABLE) => ops[i].txt = NAText
      /\ (ops[i].tgt = "gpuTemp" /\ current.gpuTempC = UNAVAILABLE) => ops[i].txt = NAText
      /\ (ops[i].tgt = "gpu" /\ current.gpu = UNAVAILABLE) => ops[i].txt = NAText

\* the number of commas of a line
CommaCount(line) == Cardinality({i \in 1..Len(line) : line[i] = ","})

\* C5: the step that reads the terminator of a line with fewer than four commas empties
\* the line buffer and changes nothing else of the program: snapshot, receipt time,
\* receivedOnce, draw caches, power state and panel stay, and no call is made.
C5_RejectedLineChangesNothing ==
  [][(AtLineEnd /\ CommaCount(Trim(lineBuf)) < 4 /\ Feeds)
       => /\ UNCHANGED << current, lastRxMillis, receivedOnce, lastLineShown, lastCpuW,
                          lastRamW, lastGpuW, lastDrawn, isLcdOn, backlight, tft, millis >>
          /\ ops' = <<>>
          /\ lineBuf' = <<>>]_vars

\* a four-field BLE packet has been read and nothing was accepted
C5_Witness ==
  /\ sent >= 1 /\ script[1] = Ble(RecShort)
  /\ pc = "serial" /\ ~haveBlePacket /\ lineBuf = <<>>
  /\ ~receivedOnce /\ current = DefaultMetrics

\* C6: the display starts ON; it goes from ON to OFF only in the sleep check of loop(),
\* with more than 60000 ms elapsed since the last receipt; so whenever it is OFF more
\* than 60000 ms have passed since the last accepted snapshot (or since boot).
C6_SleepOnlyAfterTimeout ==
  /\ [](~isLcdOn => Elapsed(millis, lastRxMillis) > LCD_SLEEP_TIMEOUT_MS)
  /\ [][(isLcdOn /\ ~isLcdOn')
          => pc = "sleep" /\ Elapsed(millis, lastRxMillis) > LCD_SLEEP_TIMEOUT_MS]_vars

\* the display went to sleep after snapshots had been received
C6_Witness == ~isLcdOn /\ backlight = "LOW" /\ receivedOnce

\* C7: the display goes from OFF to ON only in a step that accepts a snapshot, never on
\* the terminator of an oversized line, and every step that accepts a snapshot leaves
\* it ON.
C7_WakeOnlyOnValidSnapshot ==
  [][/\ (~isLcdOn /\ isLcdOn') => (Accepts /\ fed[Reading] <= LINE_CAP)
     /\ Accepts => isLcdOn']_vars

\* C8: the sleep check turns an ON display OFF once more than 60000 ms have passed
\* without an accepted snapshot: going OFF blanks the panel and switches the backlight
\* off, the display leaves OFF only in a step that accepts a snapshot, and an ON display
\* whose last receipt is more than 60000 ms old goes OFF unless a snapshot is accepted
\* first (which renews the receipt time).
C8_SleepsAfterTimeout ==
  /\ [][(isLcdOn /\ ~isLcdOn')
          => /\ ops' = <<FillScreen, Backlight("LOW")>>
             /\ tft' = BlankPanel
             /\ backlight' = "LOW"]_vars
  /\ [][(~isLcdOn /\ isLcdOn') => Accepts]_vars
  /\ ((isLcdOn /\ Elapsed(millis, lastRxMillis) > LCD_SLEEP_TIMEOUT_MS)
        ~> (~isLcdOn \/ Elapsed(millis, lastRxMillis) <= LCD_SLEEP_TIMEOUT_MS))

\* the display is OFF, dark and blank, more than 60000 ms after the last receipt
C8_Witness ==
  /\ ~isLcdOn /\ backlight = "LOW" /\ tft = BlankPanel
  /\ Elapsed(millis, lastRxMillis) > LCD_SLEEP_TIMEOUT_MS

\* the calls of a wake: backlight on, static layout, cache reset, the render of
\* snapshot m from reset caches, the status line at time t
WakeCalls(m, t, lastRx) ==
  <<Backlight("HIGH")>> \o drawStaticLayoutOnce
    \o <<Op("resetDrawCaches", "caches", 0, 0, "", NoText, DefaultMetrics)>>
    \o updateBarsAndTemps(m, resetDrawCaches).ops
    \o drawStatus(t, lastRx, TRUE)

\* the calls os end with the calls tl, but for a trailing notify
EndsWith(os, tl) ==
  LET n == IF os # <<>> /\ os[Len(os)].op = "notify" THEN Len(os) - 1 ELSE Len(os)
  IN  n >= Len(tl) /\ SubSeq(os, n - Len(tl) + 1, n) = tl

\* C9: an accepting step that finds the display OFF ends with: backlight on, static
\* layout, draw caches reset, the snapshot just accepted rendered from the reset
\* caches, status line; the display is ON afterwards.  An accepting step that finds it
\* ON writes no pin, clears nothing, redraws no layout, resets no cache and waits not.
C9_WakeSequence ==
  [][Accepts =>
       IF isLcdOn
         THEN /\ \A i \in 1..Len(ops') :
                   ops'[i].op \notin {"digitalWrite", "fillScreen", "drawHeader",
                                      "drawLabels", "resetDrawCaches"}
              /\ isLcdOn' /\ backlight' = backlight /\ millis' = millis
         ELSE /\ EndsWith(ops', WakeCalls(current', millis', lastRxMillis'))
              /\ caches' = updateBarsAndTemps(current', resetDrawCaches).c
              /\ isLcdOn' /\ backlight' = "HIGH"
              /\ millis' = TimeAdd(millis, WAKE_DELAY_MS)]_vars

\* the display has just been woken by a snapshot
C9_Witness ==
  /\ isLcdOn /\ receivedOnce
  /\ \E i \in 1..Len(ops) : ops[i] = Backlight("HIGH")

\* the calls of os that follow its last cache reset (all of os when it has none)
RECURSIVE AfterReset(_)
AfterReset(os) ==
  IF \E i \in 1..Len(os) : os[i].op = "resetDrawCaches"
    THEN AfterReset(Tail(os))
    ELSE os

\* C10: the render that follows a draw-cache reset (the first render after boot, the
\* render of a wake) draws the text of every one of the five fields.
C10_RenderAfterResetDrawsAll ==
  [][(Accepts /\ (~isLcdOn \/ caches = resetDrawCaches))
       => \A f \in Fields :
            \E i \in 1..Len(AfterReset(ops')) :
               /\ AfterReset(ops')[i].op = "drawString"
               /\ AfterReset(ops')[i].tgt = f]_vars

\* the snapshots rendered in the checks of the renderer: those of the records the host
\* sends, and the current one
RenderMenu == {Snapshot(r) : r \in {RecA, RecB, RecHalf, RecIdle}} \cup {current}

\* C11: from the draw caches of any reachable state, a second updateBarsAndTemps with
\* the same snapshot makes no call and leaves the draw caches as the first left them.
C11_RenderTwiceDrawsNothing ==
  \A m \in RenderMenu :
    \E r1 \in {updateBarsAndTemps(m, caches)} :
    \E r2 \in {updateBarsAndTemps(m, r1.c)} :
       r2.ops = <<>> /\ r2.c = r1.c

\* caches that hold a drawn snapshot, from which a first render of another snapshot
\* moves a bar and draws a temperature
C11_Witness ==
  /\ receivedOnce /\ lastCpuW > 0
  /\ \E m \in RenderMenu :
       \E r1 \in {updateBarsAndTemps(m, caches)} :
          /\ \E i \in 1..Len(r1.ops) : r1.ops[i].op = "fillRect"
          /\ \E i \in 1..Len(r1.ops) : r1.ops[i].op = "drawString" /\ r1.ops[i].tgt = "temp"

\* the cached width of bar b, and the value updateBarsAndTemps passes for it
CachedW(b) == CASE b = "cpu" -> lastCpuW [] b = "ram" -> lastRamW [] b = "gpu" -> lastGpuW
BarValue(b) == IF b = "gpu" THEN (IF current.gpu < 0 THEN 0 ELSE current.gpu) ELSE current[b]

\* a cached width as updateBarFill reads it
FromZero(w) == IF w < 0 THEN 0 ELSE w

\* the fillRect calls of os on bar b
RectsOf(os, b) == SelectSeq(os, LAMBDA o : o.op = "fillRect" /\ o.tgt = b)

\* the columns painted by the calls os
RECURSIVE Painted(_)
Painted(os) ==
  IF os = <<>> THEN 0
  ELSE (IF Head(os).op = "fillRect" THEN Head(os).b ELSE 0) + Painted(Tail(os))

\* the columns painted by updateBarFill called with the values vs in turn, from width w
RECURSIVE PaintedBy(_, _)
PaintedBy(vs, w) ==
  IF vs = <<>> THEN 0
  ELSE Only({Painted(r.ops) + PaintedBy(Tail(vs), r.w) : r \in {updateBarFill("cpu", Head(vs), w)}})

\* the one fillRect that takes bar b from width old to width new: none when equal, the
\* new columns in the bar's colour when growing, the vacated ones in the track's colour
DeltaRect(b, old, new) ==
  IF new = old THEN <<>>
  ELSE IF new > old THEN <<FillRect(b, old, new - old, BarColor(b))>>
  ELSE <<FillRect(b, new, old - new, "DARKGREY")>>

\* C12: while the display is ON the columns of each bar shown in its colour are exactly
\* [0, w) for the cached width w, which is floor(barW * clamp(value, 0, 100) / 100) of
\* the latest value; every render paints on each bar exactly the columns between the
\* old and the new width; and for the values 0, 50, 100, 50, 0 the columns painted
\* add up to those of full redraws of the widths for 50, 100, 50 and 0.
C12_BarDeltaAccounting ==
  /\ [](/\ isLcdOn =>
             \A b \in Bars :
                /\ tft.fill[b] = 0 .. (FromZero(CachedW(b)) - 1)
                /\ receivedOnce => CachedW(b) = BarWidth(BarValue(b))
        /\ PaintedBy(<<0, 500, 1000, 500, 0>>, WIDTH_UNSET)
             = BarWidth(500) + BarWidth(1000) + BarWidth(500) + BarWidth(0))
  /\ [][Accepts =>
          \A b \in Bars :
             RectsOf(IF isLcdOn THEN ops' ELSE AfterReset(ops'), b)
               = DeltaRect(b, IF isLcdOn THEN FromZero(CachedW(b)) ELSE 0, CachedW(b)')]_vars

\* the five records have been read and the bars are back at 0 after having been full
C12_Witness ==
  /\ script \in BarScripts /\ AllRead /\ isLcdOn
  /\ lastLineShown = RecIdle
  /\ \A b \in Bars : CachedW(b) = 0 /\ tft.fill[b] = {}

\* C13: every step that accepts a snapshot, on either transport, pushes exactly one
\* notify carrying the snapshot just accepted, and no other step notifies.
C13_EchoOnEveryAccept ==
  [][/\ Accepts => /\ Len(SelectSeq(ops', LAMBDA o : o.op = "notify")) = 1
                   /\ \E i \in 1..Len(ops') : ops'[i] = Notify(current')
     /\ ~Accepts => \A i \in 1..Len(ops') : ops'[i].op # "notify"]_vars

\* the ages of the last receipt at which the status is queried: around the freshness
\* threshold and at the sleep timeout
QueryAges == {0, 1, FRESH_MS - 1, FRESH_MS, FRESH_MS + 1, LCD_SLEEP_TIMEOUT_MS}

\* the status calls among os
StatusOps(os) == SelectSeq(os, LAMBDA o : o.op = "drawStatus")

\* C14: from the last receipt time t of any reachable state, drawStatus queried at t + d
\* shows the fresh indicator iff d < 2500; and every status call a step makes shows the
\* fresh indicator iff less than 2500 ms have passed since the last receipt.
C14_FreshnessBoundary ==
  /\ [](\A d \in QueryAges :
          \E s \in {drawStatus(TimeAdd(lastRxMillis, d), lastRxMillis, receivedOnce)} :
             s[1].col = (IF d < FRESH_MS THEN "GREEN" ELSE "RED"))
  /\ [][\A i \in 1..Len(StatusOps(ops')) :
           StatusOps(ops')[i].col
             = (IF Elapsed(millis', lastRxMillis') < FRESH_MS THEN "GREEN" ELSE "RED")]_vars

\* a snapshot was accepted, went stale, and the periodic repaint shows the stale dot
C14_Witness ==
  /\ receivedOnce /\ pc = "top"
  /\ Elapsed(millis, lastRxMillis) >= FRESH_MS
  /\ StatusOps(ops) # <<>> /\ tft.status = Text("blank", FALSE, 0)
  /\ ops[1].col = "RED"

\* C15: while no snapshot has been accepted, every status call shows the waiting text
\* and neither the fresh (green) nor the stale (red) indicator.
C15_WaitingIsNeitherFreshNorStale ==
  ~receivedOnce =>
     \A i \in 1..Len(StatusOps(ops)) :
        /\ StatusOps(ops)[i].txt = Text("waiting", FALSE, 0)
        /\ StatusOps(ops)[i].col \notin {"GREEN", "RED"}

\* C16: a transport is left only when it is drained, and serial bytes are read only
\* after the BLE packet is drained; an iteration entered with a complete record pending
\* on both transports and an empty line buffer accepts the BLE record, then the serial
\* record, renders each, and when it leaves the serial port the current snapshot is the
\* one accepted last, from the serial port.
C16_BothTransportsDrained ==
  /\ [][/\ (pc = "ble" /\ pc' # "ble") => incoming = <<>>
        /\ (pc = "serial" /\ pc' # "serial") => serialRx = <<>>
        /\ (serialRx # <<>> /\ serialRx' = Tail(serialRx)) => (pc = "serial" /\ incoming = <<>>)]_vars
  /\ [][(Accepts /\ iter.both)
          => /\ Len(iter.got') <= 2 =>
                  current' = Snapshot(Trim(IF Len(iter.got') = 1 THEN iter.ble ELSE iter.serial))
             /\ \E i \in 1..Len(ops') : ops'[i].op = "drawStatus"
             /\ caches' = updateBarsAndTemps(current', caches').c]_vars
  /\ [][(iter.both /\ pc = "serial" /\ pc' = "sleep")
          => /\ Len(iter.got) >= 2
             /\ iter.got[1] = Snapshot(Trim(iter.ble))
             /\ iter.got[2] = Snapshot(Trim(iter.serial))
             /\ current = iter.got[Len(iter.got)]
             /\ lastLineShown # Trim(iter.ble) \/ Trim(iter.ble) = Trim(iter.serial)]_vars

\* the iteration that found both records pending has accepted both and is about to
\* leave the serial port; the two snapshots differ
C16_Witness ==
  /\ iter.both /\ pc = "serial" /\ serialRx = <<>> /\ wire = <<>>
  /\ Len(iter.got) = 2 /\ iter.got[1] # iter.got[2]
  /\ current = iter.got[2]

\* the record that ends the host's script
LastRecord == DropTrailingSpace(script[Len(script)].bytes)

\* the next character loop() feeds is the terminator of the record that ends the
\* script: all of the script has been sent, only the terminator is left to read, and
\* the bytes fed since the terminator before are as many as the record has
FinalTerminatorNext ==
  /\ sent = Len(script)
  /\ \/ pc = "serial" /\ script[Len(script)].via = "serial"
          /\ wire = <<>> /\ serialRx = <<"\n">>
     \/ pc = "ble" /\ script[Len(script)].via = "ble" /\ incoming = <<"\n">>
  /\ fed[Reading] = Len(SelectSeq(LastRecord, LAMBDA c : c # "\r"))

\* C17: every terminator leaves the line buffer empty; so after garbage, oversized
\* lines and rejected records that end with a terminator, the line buffer holds exactly
\* the following record of at most 128 bytes when its terminator is read, and that
\* step accepts it: it becomes the current snapshot and the last-receipt time is set.
C17_NextRecordIsAccepted ==
  /\ [][(AtLineEnd /\ Feeds) => lineBuf' = <<>>]_vars
  /\ [](FinalTerminatorNext => Trim(lineBuf) = LastRecord)
  /\ [][(FinalTerminatorNext /\ Feeds)
          => /\ current' = Snapshot(LastRecord)
             /\ receivedOnce'
             /\ lastRxMillis' = millis
             /\ lastLineShown' = LastRecord
             /\ isLcdOn']_vars

\* after an oversized line, a record of 128 bytes has been read and accepted
C17_Witness ==
  /\ AllRead /\ script[Len(script)].bytes = RecOfLen(LINE_CAP) \o <<"\r">> \o NL
  /\ lastLineShown = RecOfLen(LINE_CAP) /\ current = Snapshot(RecA)
  /\ lineBuf = <<>>

\* the character loop() feeds next, when it feeds one
NextChar == IF pc = "ble" THEN Head(incoming) ELSE Head(serialRx)

\* C18: the line buffer never holds more than 128 bytes; a byte fed to a full buffer
\* empties it, a byte fed to a buffer that is not full is appended, a carriage return
\* leaves the buffer as it is (also when it is full), and a terminator empties it.
C18_LineBufferBounded ==
  /\ [](Len(lineBuf) <= LINE_CAP)
  /\ [][Feeds =>
          lineBuf' = (IF NextChar = "\n" THEN <<>>
                      ELSE IF NextChar = "\r" THEN lineBuf
                      ELSE IF Len(lineBuf) = LINE_CAP THEN <<>>
                      ELSE Append(lineBuf, NextChar))]_vars

\* a carriage return has been fed to a full line buffer, which is still full
C18_Witness ==
  /\ Len(lineBuf) = LINE_CAP /\ pc = "serial" /\ serialRx = <<"\n">>
  /\ fed.serial = LINE_CAP

\* C19: the step that reads the terminator of a line with five or more commas (more
\* than five fields) accepts no snapshot: the current snapshot, receivedOnce and the
\* last-receipt time stay as they are.
C19_MoreThanFiveFieldsRejected ==
  [][(AtLineEnd /\ Feeds /\ CommaCount(Trim(lineBuf)) >= 5)
       => UNCHANGED << current, receivedOnce, lastRxMillis >>]_vars

\* the k-th field of a line with at least four commas: the text between the commas, the
\* fifth field running to the end of the line
CommaAt(line, k) ==
  IF k = 0 THEN 0
  ELSE CHOOSE i \in 1..Len(line) :
         line[i] = "," /\ Cardinality({j \in 1..i : line[j] = ","}) = k
FieldOf(line, k) ==
  SubSeq(line, CommaAt(line, k - 1) + 1, IF k = 5 THEN Len(line) ELSE CommaAt(line, k) - 1)

\* a number starts the field: after whitespace and at most one sign comes a digit, or a
\* point and a digit
BeginsWithNumber(f) ==
  \E t \in {DropLeadingSpace(f)} :
  \E u \in {IF t # <<>> /\ t[1] \in {"+", "-"} THEN Tail(t) ELSE t} :
     /\ u # <<>>
     /\ \/ u[1] \in Digits
        \/ u[1] = "." /\ Len(u) >= 2 /\ u[2] \in Digits

\* the value of a field: its number when one starts it, else 0
FieldValue(f) == IF BeginsWithNumber(f) THEN ToFloat(f) ELSE 0

\* C20: the step that reads the terminator of a line with four commas accepts it: the
\* current snapshot takes, field by field, the number that starts the field or 0 when
\* none does, receivedOnce is set, the last-receipt time is the time of the step and
\* the display is ON with the backlight on afterwards.
C20_UnparsableFieldsBecomeZero ==
  [][(AtLineEnd /\ Feeds /\ CommaCount(Trim(lineBuf)) = 4)
       => \E l \in {Trim(lineBuf)} :
            /\ current' = Metrics(FieldValue(FieldOf(l, 1)), FieldValue(FieldOf(l, 2)),
                                  FieldValue(FieldOf(l, 3)), FieldValue(FieldOf(l, 4)),
                                  FieldValue(FieldOf(l, 5)))
            /\ receivedOnce'
            /\ lastRxMillis' = millis
            /\ lastLineShown' = l
            /\ isLcdOn' /\ backlight' = "HIGH"]_vars

\* a line whose first, third and fifth fields hold no number has woken the display
C20_Witness ==
  /\ lastLineShown = RecJunk /\ current = Metrics(0, 20, 0, 40, 0)
  /\ isLcdOn /\ \E i \in 1..Len(ops) : ops[i] = Backlight("HIGH")

RowMetrics(vs) == Metrics(vs[1], vs[2], vs[3], vs[4], vs[5])

\* C21: the step that reads the terminator of the record of five values takes the
\* first to fifth value, unchanged, as cpu, tempC, ram, gpu and gpuTempC of the current
\* snapshot; and the current snapshot changes in such a step only, all its five fields
\* then being those of the one line read.
C21_ParseRoundTrip ==
  [][/\ (AtLineEnd /\ Feeds)
          => \E l \in {Trim(lineBuf)} :
             \A vs \in ValueRows :
               RecordOf[vs] = l
                 => current' = RowMetrics(vs) /\ receivedOnce' /\ lastLineShown' = l
     /\ current' # current
          => /\ AtLineEnd /\ Feeds
             /\ \E l \in {Trim(lineBuf)} :
                  current' = Metrics(FieldValue(FieldOf(l, 1)), FieldValue(FieldOf(l, 2)),
                                     FieldValue(FieldOf(l, 3)), FieldValue(FieldOf(l, 4)),
                                     FieldValue(FieldOf(l, 5)))]_vars

\* the record of 150, -1, 55.4, 0, 0 was accepted on the serial port and the record of
\* the same values moved one field on was accepted on BLE after it
C21_Witness ==
  /\ sent = 2 /\ script[1].bytes = RecordOf[<<1500, UNAVAILABLE, 554, 0, 0>>] \o NL
  /\ current = Metrics(0, 1500, UNAVAILABLE, 554, 0)

\* a packet as a complete line: the packet itself when it ends with a newline, else the
\* packet and a newline
AsLine(packet) ==
  IF packet # <<>> /\ packet[Len(packet)] = "\n" THEN packet ELSE packet \o NL

\* C22: loop() takes a pending BLE packet over as a complete line, a newline added
\* only when the packet does not end with one; the last character it feeds of a packet
\* is a terminator; when the line buffer holds exactly the packet's record at that
\* terminator (it was empty when the packet was taken over), a valid record is accepted
\* in that step; and the line buffer is empty when the packet has been consumed.
C22_BlePacketIsALine ==
  [][/\ (pc = "top" /\ haveBlePacket) => pc' = "ble" /\ incoming' = AsLine(lastBlePacket)
     /\ (pc = "ble" /\ incoming # <<>>) => incoming[Len(incoming)] = "\n"
     /\ (pc = "ble" /\ incoming = NL /\ Feeds /\ lineBuf = DropTrailingSpace(lastBlePacket)
           /\ CommaCount(Trim(lineBuf)) = 4)
          => /\ current' = Metrics(FieldValue(FieldOf(lineBuf, 1)), FieldValue(FieldOf(lineBuf, 2)),
                                   FieldValue(FieldOf(lineBuf, 3)), FieldValue(FieldOf(lineBuf, 4)),
                                   FieldValue(FieldOf(lineBuf, 5)))
             /\ lastLineShown' = lineBuf /\ lastRxMillis' = millis /\ receivedOnce'
             /\ lineBuf' = <<>> /\ incoming' = <<>>
     /\ (pc = "ble" /\ pc' # "ble") => lineBuf = <<>> /\ lineBuf' = <<>> /\ ~haveBlePacket']_vars

\* the packet "1,2,3,4,5", written without a newline, has been fed whole and accepted
C22_Witness ==
  /\ pc = "ble" /\ incoming = <<>> /\ lineBuf = <<>>
  /\ lastBlePacket = RecA /\ lastLineShown = RecA /\ current = Snapshot(RecA)

\* the periodic repaint is due: more than STATUS_PERIOD_MS since the previous one
StatusDue == Elapsed(millis, lastRender) > STATUS_PERIOD_MS

\* the calls of a full repaint of the status line at time now
FullStatusPaint(os, now) ==
  /\ Len(os) = 1 /\ os[1].op = "drawStatus"
  /\ os[1].col = (IF Elapsed(now, lastRxMillis) < FRESH_MS THEN "GREEN" ELSE "RED")
  /\ os[1].txt.kind = (IF receivedOnce THEN "blank" ELSE "waiting")

\* loop() has just done a periodic repaint
JustRepainted == pc = "top" /\ lastRender = millis /\ FullStatusPaint(ops, millis)

\* C23: the last step of a loop() iteration repaints the status line in full and notes
\* the time iff more than STATUS_PERIOD_MS have passed since the repaint noted before,
\* whatever data has arrived; the noted time changes in no other step; and whenever a
\* repaint is due, loop() does it.
C23_StatusCadence ==
  /\ [][/\ (pc = "status" /\ pc' = "top")
             => IF StatusDue
                  THEN FullStatusPaint(ops', millis) /\ lastRender' = millis
                       /\ tft'.status = ops'[1].txt
                  ELSE ops' = <<>> /\ lastRender' = lastRender /\ tft' = tft
        /\ lastRender' # lastRender
             => pc = "status" /\ Elapsed(lastRender', lastRender) > STATUS_PERIOD_MS]_vars
  /\ StatusDue ~> JustRepainted

\* the second periodic repaint, two sleep timeouts after boot, with no data received
C23_Witness ==
  /\ JustRepainted /\ ~receivedOnce
  /\ millis = TimeAdd(TimeAdd(Time(STATUS_PERIOD_MS - 1), LCD_SLEEP_TIMEOUT_MS), LCD_SLEEP_TIMEOUT_MS)

\* the cache key of a temperature: its tenths of a degree, -1 when unavailable
TempKey(t) == IF t < 0 THEN -1 ELSE t
\* the cache key of the GPU load: the load rounded to an integer, -1 when unavailable
GpuKey(g) == IF g < 0 THEN -1 ELSE (g + 5) \div 10

\* the calls of the render that an accept step starts with: those before the status line
RenderPart(os) ==
  SubSeq(os, 1, (CHOOSE i \in 1..Len(os) :
                   os[i].op = "drawStatus" /\ \A j \in 1..(i - 1) : os[j].op # "drawStatus") - 1)
Draws(os, tgt) == \E i \in 1..Len(os) : os[i].tgt = tgt

\* C24: the render of an accepted snapshot draws a temperature iff its key differs from
\* the cached key; it touches the GPU bar only if the GPU key differs from the cached
\* one, and then as a bar update from the cached width to the width of the load does;
\* afterwards the cache holds the three keys of the snapshot, and the cached GPU width
\* is that of the load iff the update was attempted (or the display was woken).
C24_ChangeGating ==
  [][Accepts
       => \E m \in {current'} : \E ren \in {RenderPart(ops')} :
          \E w \in {BarWidth(IF m.gpu < 0 THEN 0 ELSE m.gpu)} :
            /\ Draws(ren, "temp") <=> TempKey(m.tempC) # lastDrawn.tempC
            /\ Draws(ren, "gpuTemp") <=> TempKey(m.gpuTempC) # lastDrawn.gpuTempC
            /\ Draws(ren, "gpu")
                 <=> /\ GpuKey(m.gpu) # lastDrawn.gpu
                     /\ w # (IF lastGpuW < 0 THEN 0 ELSE lastGpuW)
            /\ lastDrawn'.tempC = TempKey(m.tempC)
            /\ lastDrawn'.gpuTempC = TempKey(m.gpuTempC)
            /\ lastDrawn'.gpu = GpuKey(m.gpu)
            /\ lastGpuW' = (IF GpuKey(m.gpu) # lastDrawn.gpu \/ ~isLcdOn THEN w
                            ELSE lastGpuW)]_vars

\* after 50 the GPU load 49.6 was rendered with the display ON: the key is 50 as before
\* and the bar keeps the width of 50 although 49.6 is one pixel narrower
C24_Witness ==
  /\ lastLineShown = RecNear /\ current.gpu = 496
  /\ lastDrawn.gpu = 50 /\ lastGpuW = BarWidth(500) /\ BarWidth(496) < BarWidth(500)
  /\ tft.gpuTemp = Text("degC", FALSE, 67)

\* the percentage text of a load: the load rounded to an integer percent
PercentText(v) == Text("pct", v < 0, RoundHalfEven(IF v < 0 THEN 0 - v ELSE v))

\* C25: once a snapshot was accepted and while the display is ON, the texts beside the
\* CPU and the RAM bar are the percentage texts of the current snapshot's loads.
C25_PercentTextIsCurrent ==
  (receivedOnce /\ isLcdOn)
    => tft.cpu = PercentText(current.cpu) /\ tft.ram = PercentText(current.ram)

\* a call that draws on the panel
IsDrawing(o) == o.op \in {"fillScreen", "fillRect", "drawString", "drawStatus", "drawHeader", "drawLabels"}

\* C26: a step taken while the display is OFF either leaves it OFF, and then draws
\* nothing and leaves the panel blank, or wakes it, and then all its drawing comes after
\* the backlight is switched on at the start of the wake.
C26_NoDrawingWhileOff ==
  [][~isLcdOn
       => IF isLcdOn'
            THEN ops' # <<>> /\ ops'[1] = Backlight("HIGH")
            ELSE /\ \A i \in 1..Len(ops') : ~IsDrawing(ops'[i])
                 /\ tft' = BlankPanel]_vars

\* the step is onWrite storing a packet
Writes == sent' = sent + 1 /\ script[sent'].via = "ble"

\* C27: a packet is written only over a packet that loop() has copied (none is pending
\* when loop() is outside its BLE branch), and the packet that loop() clears when it
\* leaves its BLE branch is the packet it has fed: the line last accepted is its record.
C27_BleHandOffLosesNothing ==
  [][/\ (Writes /\ pc # "ble") => ~haveBlePacket
     /\ (pc = "ble" /\ haveBlePacket /\ ~haveBlePacket')
          => lastLineShown = DropTrailingSpace(lastBlePacket)]_vars

\* the times that can have passed in a run: clock advances of 1 ms and of the sleep
\* timeout, the delay of a wake, and the status period that had passed at the start
Gaps ==
  {i + j * LCD_SLEEP_TIMEOUT_MS + k * WAKE_DELAY_MS + o :
     i \in 0..MaxTicks, j \in 0..MaxTicks, k \in 0..2, o \in {0, STATUS_PERIOD_MS}}

\* the time that has passed since the time last is d milliseconds
PassedSince(last, d) == millis = TimeAdd(last, d)

\* C28: with millis() wrapping during the run, the sleep check turns the display OFF
\* iff it is ON and more than the sleep timeout has really passed since the last
\* snapshot; the periodic redraw repaints iff more than the status period has really
\* passed since the last repaint; and the dot it paints is green iff less than 2500 ms
\* have really passed since the last snapshot.
C28_ElapsedAcrossWrap ==
  [][/\ (pc = "sleep" /\ pc' = "status")
          => \E d \in Gaps :
               /\ PassedSince(lastRxMillis, d)
               /\ isLcdOn' <=> (isLcdOn /\ d <= LCD_SLEEP_TIMEOUT_MS)
     /\ (pc = "status" /\ pc' = "top")
          => \E d \in Gaps : \E e \in Gaps :
               /\ PassedSince(lastRender, d) /\ PassedSince(lastRxMillis, e)
               /\ ops' # <<>> <=> d > STATUS_PERIOD_MS
               /\ ops' # <<>> => ops'[1].col = (IF e < FRESH_MS THEN "GREEN" ELSE "RED")]_vars

\* millis() has wrapped; the snapshot accepted before the wrap is shown as fresh by the
\* periodic repaint after it, and the display is ON
C28_Witness ==
  /\ millis.hi = 0 /\ lastRxMillis = LastBeforeWrap /\ lastRender = millis
  /\ pc = "top" /\ isLcdOn
  /\ Len(ops) = 1 /\ ops[1].op = "drawStatus" /\ ops[1].col = "GREEN"

====
